---- MODULE Spec2Model ----
(***************************************************************************)
(* Model of xiaethan/sync, src/aggregation/aggregate.py: the Aggregator    *)
(* (time codec, entry flattening, pairwise intersection, interval merge,   *)
(* scoring and ranking).                                                   *)
(*                                                                         *)
(* Representation.                                                         *)
(*  - A Python str is a sequence of character codes (ASCII): "09:00" is    *)
(*    <<48,57,58,48,48>>.  Comparison of strings is Python's (lexico-      *)
(*    graphic on code points), parsing and formatting are done digit by    *)
(*    digit.  The alphabet of the model is the digits, ':' and 'x'.        *)
(*  - A Python dict is a TLA+ function on its keys; dict.get(k, d) is Get. *)
(*  - list(set(...)) has the iteration order of a Python set; nothing in   *)
(*    the program reads that order.  "participants" is kept as a set and   *)
(*    "participant_names" as a bag (elements with multiplicity, no order), *)
(*    so len() is Cardinality / BagCardinality.                            *)
(*  - A float the program returns is kept in hundredths: 0.67 is 67,       *)
(*    1.0 is 100.                                                          *)
(*  - A raised exception is the value of the "raised" field of the         *)
(*    outcome ("none" when the call returns).                              *)
(***************************************************************************)
EXTENDS Integers, Sequences, FiniteSets, Bags, TLC

VARIABLES pc, qc_output, result, raised, intersections, merged, remerged, steps

vars == <<pc, qc_output, result, raised, intersections, merged, remerged, steps>>

(***************************************************************************)
(* Strings                                                                 *)
(***************************************************************************)
Colon == 58

Zero == 48

IsDigit(c) == c >= 48 /\ c <= 57

\* Python's < on str.
RECURSIVE StrLess(_, _)
StrLess(a, b) ==
  IF a = <<>> THEN b # <<>>
  ELSE IF b = <<>> THEN FALSE
  ELSE IF Head(a) # Head(b) THEN Head(a) < Head(b)
  ELSE StrLess(Tail(a), Tail(b))

\* str.split(":")
RECURSIVE split(_)
split(s) ==
  IF s = <<>> THEN << <<>> >>
  ELSE LET rest == split(Tail(s))
       IN IF Head(s) = Colon
          THEN << <<>> >> \o rest
          ELSE << <<Head(s)>> \o Head(rest) >> \o Tail(rest)

\* int(str): over the model's alphabet a string converts iff it is a
\* non-empty run of decimal digits; otherwise int() raises ValueError.
IntOk(p) == p # <<>> /\ \A k \in 1..Len(p) : IsDigit(p[k])

RECURSIVE IntVal(_)
IntVal(p) == IF p = <<>> THEN 0 ELSE 10 * IntVal(SubSeq(p, 1, Len(p) - 1)) + (p[Len(p)] - Zero)

\* Decimal digits of n >= 0, as str(n).
RECURSIVE Digits(_)
Digits(n) == IF n < 10 THEN <<Zero + n>> ELSE Digits(n \div 10) \o <<Zero + (n % 10)>>

\* f"{n:02d}"
Fmt02(n) == IF n < 10 THEN <<Zero>> \o Digits(n) ELSE Digits(n)

(***************************************************************************)
(* Time codec                                                              *)
(***************************************************************************)
\* Aggregator._time_to_minutes, with the exception it may raise:
\* int(parts[0]) is evaluated first, then parts[1] is indexed, then
\* int(parts[1]).
_time_to_minutes(time_str) ==
  LET parts == split(time_str)
  IN IF ~IntOk(parts[1]) THEN [raised |-> "ValueError", value |-> 0]
     ELSE IF Len(parts) < 2 THEN [raised |-> "IndexError", value |-> 0]
     ELSE IF ~IntOk(parts[2]) THEN [raised |-> "ValueError", value |-> 0]
     ELSE [raised |-> "none", value |-> IntVal(parts[1]) * 60 + IntVal(parts[2])]

\* Aggregator._minutes_to_time
_minutes_to_time(minutes) ==
  LET hours == minutes \div 60
      mins == minutes % 60
  IN Fmt02(hours) \o <<Colon>> \o Fmt02(mins)

\* QualityControl._is_valid_time
_is_valid_time(time_str) ==
  LET parts == split(time_str)
  IN /\ Len(parts) = 2
     /\ IntOk(parts[1])
     /\ IntOk(parts[2])
     /\ IntVal(parts[1]) < 24
     /\ IntVal(parts[2]) < 60

(***************************************************************************)
(* Aggregator                                                              *)
(***************************************************************************)
\* Aggregator.__init__: self.min_overlap_minutes
min_overlap_minutes == 30

\* dict.get(k, default)
Get(d, k, default) == IF k \in DOMAIN d THEN d[k] ELSE default

\* Mutant of EmptyResult: the empty roster answers like a non-empty one.
EmptyResult_rate_one ==
  [optimal_times |-> <<>>, participant_count |-> 0, response_rate |-> 100, status |-> "active"]

\* aggregate, the early return for an empty roster.
EmptyResult ==
  [optimal_times |-> <<>>, participant_count |-> 0, response_rate |-> 0, status |-> "active"]

\* aggregate, the inner loop over one entry's clean_slots.
entry_slots(entry) ==
  LET cs == Get(entry, "clean_slots", <<>>)
  IN [k \in 1..Len(cs) |->
        [user_id |-> entry.user_id,
         user_name |-> Get(entry, "user_name", entry.user_id),
         start |-> cs[k].start,
         end |-> cs[k].end]]

\* aggregate, the loop that fills all_slots.
RECURSIVE all_slots(_)
all_slots(entries) ==
  IF entries = <<>> THEN <<>>
  ELSE entry_slots(Head(entries)) \o all_slots(Tail(entries))

\* aggregate, the set participant_ids.
participant_ids(entries) == {entries[k].user_id : k \in 1..Len(entries)}

\* _find_optimal_overlaps, the conversion of one slot (start, then end).
convert_slot(slot) ==
  LET s == _time_to_minutes(slot.start)
      e == _time_to_minutes(slot.end)
  IN [raised |-> IF s.raised # "none" THEN s.raised ELSE e.raised,
      user_id |-> slot.user_id,
      user_name |-> slot.user_name,
      start_min |-> s.value,
      end_min |-> e.value,
      start |-> slot.start,
      end |-> slot.end]

\* _find_optimal_overlaps, the conversion loop.
time_slots(slots) == [k \in 1..Len(slots) |-> convert_slot(slots[k])]

\* The exception the conversion loop stops with: that of the first slot
\* that does not convert ("none" when all convert).
conversion_raised(ts) ==
  IF \A k \in 1..Len(ts) : ts[k].raised = "none" THEN "none"
  ELSE LET k == CHOOSE a \in 1..Len(ts) :
                  /\ ts[a].raised # "none"
                  /\ \A b \in 1..(a - 1) : ts[b].raised = "none"
       IN ts[k].raised

\* Mutant of long_enough: the threshold compared with > instead of >=.
long_enough_strict(overlap_minutes) == overlap_minutes > min_overlap_minutes

\* _find_optimal_overlaps, the threshold test on an overlap.
long_enough(overlap_minutes) == overlap_minutes >= min_overlap_minutes

\* _find_optimal_overlaps, the body of the double loop for one (slot1, slot2):
\* the list of the records it appends (none or one).
overlap(slot1, slot2) ==
  LET overlap_start == IF slot1.start_min >= slot2.start_min THEN slot1.start_min ELSE slot2.start_min
      overlap_end == IF slot1.end_min <= slot2.end_min THEN slot1.end_min ELSE slot2.end_min
      overlap_minutes == overlap_end - overlap_start
  IN IF overlap_end > overlap_start /\ long_enough(overlap_minutes)
     THEN << [start |-> _minutes_to_time(overlap_start),
              end |-> _minutes_to_time(overlap_end),
              participants |-> {slot1.user_id, slot2.user_id},
              participant_names |-> SetToBag({slot1.user_name}) (+) SetToBag({slot2.user_name}),
              overlap_minutes |-> overlap_minutes] >>
     ELSE <<>>

\* The guard of the double loop: the pairs (i, j) it skips.
skip_pair(ts, i, j) == i >= j \/ ts[i].user_id = ts[j].user_id

\* _find_optimal_overlaps, the double loop, in its order (i outer, j inner);
\* k counts the (i, j) visited so far.
RECURSIVE pair_loop(_, _)
pair_loop(ts, k) ==
  LET n == Len(ts)
      i == (k \div n) + 1
      j == (k % n) + 1
  IN IF k >= n * n THEN <<>>
     ELSE (IF skip_pair(ts, i, j) THEN <<>> ELSE overlap(ts[i], ts[j]))
          \o pair_loop(ts, k + 1)

find_intersections(ts) == pair_loop(ts, 0)

\* sorted(intersections, key=lambda x: x["start"]): stable, ascending, on
\* the start strings.
\* x put into the sorted list s after every element whose key is <= its own.
insert_by_start(s, x) ==
  LET before == {k \in 1..Len(s) : ~StrLess(x.start, s[k].start)}
      p == IF before = {} THEN 0 ELSE CHOOSE k \in before : \A b \in before : b <= k
  IN SubSeq(s, 1, p) \o <<x>> \o SubSeq(s, p + 1, Len(s))

RECURSIVE sorted_by_start(_)
sorted_by_start(seq) ==
  IF seq = <<>> THEN <<>>
  ELSE insert_by_start(sorted_by_start(SubSeq(seq, 1, Len(seq) - 1)), seq[Len(seq)])

\* Mutant of touches: adjacent windows are not merged (< instead of <=).
touches_strict(last, inter) ==
  _time_to_minutes(inter.start).value < _time_to_minutes(last.end).value

\* Mutant of touches: the start is compared with the end of the same record.
touches_own_end(last, inter) ==
  _time_to_minutes(inter.start).value <= _time_to_minutes(inter.end).value

\* _merge_intersections, the test "overlap or adjacent".
touches(last, inter) ==
  _time_to_minutes(inter.start).value <= _time_to_minutes(last.end).value

\* Mutant of merge_into: the end becomes the merged record's end, not the
\* later of the two.
merge_into_last_end(last, inter) ==
  [last EXCEPT
     !.end = inter.end,
     !.participants = last.participants \cup inter.participants,
     !.participant_names =
        SetToBag(BagToSet(last.participant_names) \cup BagToSet(inter.participant_names))]

\* _merge_intersections, the merge branch: the new value of merged[-1].
merge_into(last, inter) ==
  [last EXCEPT
     !.end = IF _time_to_minutes(inter.end).value > _time_to_minutes(last.end).value
             THEN inter.end ELSE last.end,
     !.participants = last.participants \cup inter.participants,
     !.participant_names =
        SetToBag(BagToSet(last.participant_names) \cup BagToSet(inter.participant_names))]

\* Mutant of sweep: a record is compared with the end of the record before it
\* in the sorted list, not with the end accumulated in merged[-1].
RECURSIVE sweep_prev_record(_, _, _)
sweep_prev_record(sorted_intersections, k, acc) ==
  IF k > Len(sorted_intersections) THEN acc
  ELSE LET inter == sorted_intersections[k]
       IN IF Len(acc) = 0 THEN sweep_prev_record(sorted_intersections, k + 1, <<inter>>)
          ELSE IF touches(sorted_intersections[k - 1], inter)
               THEN sweep_prev_record(sorted_intersections, k + 1,
                       [acc EXCEPT ![Len(acc)] = merge_into(acc[Len(acc)], inter)])
               ELSE sweep_prev_record(sorted_intersections, k + 1, Append(acc, inter))

\* _merge_intersections, the loop over sorted_intersections from index k on.
RECURSIVE sweep(_, _, _)
sweep(sorted_intersections, k, acc) ==
  IF k > Len(sorted_intersections) THEN acc
  ELSE LET inter == sorted_intersections[k]
       IN IF Len(acc) = 0 THEN sweep(sorted_intersections, k + 1, <<inter>>)
          ELSE LET last == acc[Len(acc)]
               IN IF touches(last, inter)
                  THEN sweep(sorted_intersections, k + 1,
                             [acc EXCEPT ![Len(acc)] = merge_into(last, inter)])
                  ELSE sweep(sorted_intersections, k + 1, Append(acc, inter))

\* Aggregator._merge_intersections
_merge_intersections(inters) ==
  IF Len(inters) = 0 THEN <<>>
  ELSE sweep(sorted_by_start(inters), 1, <<>>)

\* round(n / d, 2) in hundredths (0.0 when d = 0).  Python rounds the float
\* n / d; a roster of fewer than 8 has no quotient n / d half way between
\* two hundredths, so the nearest hundredth of the exact quotient is the
\* result (ties, which need d >= 8, go to the even hundredth).
confidence_of(n, d) ==
  IF d = 0 THEN 0
  ELSE LET q == (100 * n) \div d
           r == (100 * n) % d
       IN IF 2 * r < d THEN q
          ELSE IF 2 * r > d THEN q + 1
          ELSE IF q % 2 = 0 THEN q ELSE q + 1

\* _find_optimal_overlaps, the scoring loop.
score(merged_slots, total_participants) ==
  [k \in 1..Len(merged_slots) |->
     [start |-> merged_slots[k].start,
      end |-> merged_slots[k].end,
      participants |-> merged_slots[k].participants,
      participant_names |-> merged_slots[k].participant_names,
      confidence |-> confidence_of(Cardinality(merged_slots[k].participants), total_participants)]]

\* The sort key of aggregate's final sort, and Python's < on the key tuples.
key_less(a, b) ==
  \/ Cardinality(a.participants) < Cardinality(b.participants)
  \/ /\ Cardinality(a.participants) = Cardinality(b.participants)
     /\ a.confidence < b.confidence

\* optimal_times.sort(key=..., reverse=True): descending, and stable (equal
\* keys keep their order, also with reverse=True).
\* Mutant of insert_reverse: x goes before the elements of equal key (what
\* sorting ascending and reversing the list does to ties).
insert_reverse_ties_first(s, x) ==
  LET before == {k \in 1..Len(s) : key_less(x, s[k])}
      p == IF before = {} THEN 0 ELSE CHOOSE k \in before : \A b \in before : b <= k
  IN SubSeq(s, 1, p) \o <<x>> \o SubSeq(s, p + 1, Len(s))

\* x put into the sorted list s after every element whose key is >= its own.
insert_reverse(s, x) ==
  LET before == {k \in 1..Len(s) : ~key_less(s[k], x)}
      p == IF before = {} THEN 0 ELSE CHOOSE k \in before : \A b \in before : b <= k
  IN SubSeq(s, 1, p) \o <<x>> \o SubSeq(s, p + 1, Len(s))

RECURSIVE sort_reverse(_)
sort_reverse(seq) ==
  IF seq = <<>> THEN <<>>
  ELSE insert_reverse(sort_reverse(SubSeq(seq, 1, Len(seq) - 1)), seq[Len(seq)])

\* Mutant of roster_size: the entries are counted, not the distinct ids.
roster_size_entries(entries) == Len(entries)

\* aggregate, the size of the roster.
roster_size(entries) == Cardinality(participant_ids(entries))

\* aggregate, response_rate.
response_rate_of(participant_count) == IF participant_count > 0 THEN 100 ELSE 0

\* Aggregator.aggregate: what the call returns or raises, with the locals
\* intersections and merged of _find_optimal_overlaps and the stages run.
aggregate(q) ==
  LET validated_entries == Get(q, "validated_entries", <<>>)
      slots == all_slots(validated_entries)
      ts == time_slots(slots)
      exc == conversion_raised(ts)
      inters == find_intersections(ts)
      mrg == _merge_intersections(inters)
      participant_count == roster_size(validated_entries)
      optimal_times == sort_reverse(score(mrg, participant_count))
      answer(ot) == [optimal_times |-> ot,
                     participant_count |-> participant_count,
                     response_rate |-> response_rate_of(participant_count),
                     status |-> "active"]
  IN IF Len(validated_entries) = 0
     THEN [raised |-> "none", result |-> EmptyResult,
           intersections |-> <<>>, merged |-> <<>>, steps |-> <<>>]
     ELSE IF Len(slots) = 0
     THEN [raised |-> "none", result |-> answer(<<>>),
           intersections |-> <<>>, merged |-> <<>>, steps |-> <<"flatten", "sort">>]
     ELSE IF exc # "none"
     THEN [raised |-> exc, result |-> [status |-> "raised"],
           intersections |-> <<>>, merged |-> <<>>, steps |-> <<"flatten", "convert">>]
     ELSE [raised |-> "none", result |-> answer(optimal_times),
           intersections |-> inters, merged |-> mrg,
           steps |-> <<"flatten", "convert", "intersect", "merge", "score", "sort">>]

(***************************************************************************)
(* Inputs                                                                  *)
(***************************************************************************)
\* "HH:MM" from its four digits.
T(h1, h2, m1, m2) == <<Zero + h1, Zero + h2, Colon, Zero + m1, Zero + m2>>

Slot(s, e) == [start |-> s, end |-> e]

\* Sequences over S of length at most n.
SeqUpTo(S, n) == UNION {[1..k -> S] : k \in 0..n}

Users == {"U1", "U2", "U3"}

MaxEntries == 3

MaxRecords == 3

\* What one participant may report.  "9:00" is written without its leading
\* zero (the validator accepts it); <<11:00, 09:00>> ends before it starts.
SlotLists ==
  { << Slot(<<57, 58, 48, 48>>, T(1,0,0,0)) >>,
    << Slot(T(0,9,3,0), T(1,1,0,0)) >>,
    << Slot(T(0,9,3,1), T(1,1,0,0)), Slot(T(1,1,0,0), T(0,9,0,0)) >>,
    << Slot(T(0,9,0,0), T(0,9,3,0)), Slot(T(1,0,3,0), T(1,1,0,0)),
       Slot(T(1,4,0,0), T(1,5,0,0)) >> }

Entries == {[user_id |-> u, clean_slots |-> sl] : u \in Users, sl \in SlotLists}

\* The value of result before the call returns.
NotReturned == [status |-> "pending"]

Inputs == {[validated_entries |-> es] : es \in SeqUpTo(Entries, MaxEntries)}

Init == /\ pc = "start"
        /\ qc_output \in Inputs
        /\ result = NotReturned
        /\ raised = "none"
        /\ intersections = <<>>
        /\ merged = <<>>
        /\ remerged = <<>>
        /\ steps = <<>>

Aggregate ==
  /\ pc = "start"
  /\ \E out \in {aggregate(qc_output)} :
        /\ result' = out.result
        /\ raised' = out.raised
        /\ intersections' = out.intersections
        /\ merged' = out.merged
        /\ steps' = out.steps
  /\ pc' = "done"
  /\ UNCHANGED <<qc_output, remerged>>

Next == Aggregate

Spec == Init /\ [][Next]_vars

(***************************************************************************)
(* Rosters: display names present or absent, shared by two participants,   *)
(* a user_id in several entries, participants without slots, the empty     *)
(* roster and the input without its "validated_entries" key.               *)
(***************************************************************************)
RosterSlotLists == { <<>>, << Slot(T(0,9,0,0), T(1,1,0,0)) >> }

\* "Sam"
Sam == "Sam"

RosterEntries ==
  {[user_id |-> u, clean_slots |-> sl] : u \in Users, sl \in RosterSlotLists}
  \cup {[user_id |-> u, user_name |-> Sam, clean_slots |-> sl] :
          u \in Users, sl \in RosterSlotLists}

RosterInputs ==
  {[validated_entries |-> es] : es \in SeqUpTo(RosterEntries, MaxEntries)}
  \cup {[flagged_entries |-> <<>>]}

InitRoster ==
  /\ pc = "start"
  /\ qc_output \in RosterInputs
  /\ result = NotReturned
  /\ raised = "none"
  /\ intersections = <<>>
  /\ merged = <<>>
  /\ remerged = <<>>
  /\ steps = <<>>

SpecRoster == InitRoster /\ [][Next]_vars

(***************************************************************************)
(* Time strings that do not convert: "9x:00" (int() raises ValueError) and *)
(* "1100" (no second part: IndexError).                                    *)
(***************************************************************************)
BadTimeSlotLists ==
  { << Slot(T(0,9,0,0), T(1,1,0,0)) >>,
    << Slot(<<57, 120, 58, 48, 48>>, T(1,1,0,0)) >>,
    << Slot(T(0,9,0,0), <<49, 49, 48, 48>>) >> }

BadTimeEntries == {[user_id |-> u, clean_slots |-> sl] : u \in Users, sl \in BadTimeSlotLists}

BadTimeInputs == {[validated_entries |-> es] : es \in SeqUpTo(BadTimeEntries, MaxEntries)}

InitBadTime ==
  /\ pc = "start"
  /\ qc_output \in BadTimeInputs
  /\ result = NotReturned
  /\ raised = "none"
  /\ intersections = <<>>
  /\ merged = <<>>
  /\ remerged = <<>>
  /\ steps = <<>>

SpecBadTime == InitBadTime /\ [][Next]_vars

(***************************************************************************)
(* _merge_intersections on lists of pairwise overlap records, and on its   *)
(* own output.                                                             *)
(***************************************************************************)
MergeTimes ==
  {T(0,9,0,0), T(0,9,3,0), T(0,9,4,5), T(1,0,0,0), T(1,0,3,0), T(1,1,0,0)}

\* The two participants of the records that start at s.
PairAt(s) ==
  IF s \in {T(0,9,0,0), T(1,0,0,0)} THEN {"U1", "U2"}
  ELSE IF s \in {T(0,9,3,0), T(1,0,3,0)} THEN {"U1", "U3"}
  ELSE {"U2", "U3"}

\* A record as the intersection step builds it (names default to the ids).
Record(s, e) ==
  [start |-> s, end |-> e, participants |-> PairAt(s),
   participant_names |-> SetToBag(PairAt(s)),
   overlap_minutes |-> _time_to_minutes(e).value - _time_to_minutes(s).value]

RecordPool ==
  {Record(se[1], se[2]) : se \in {x \in MergeTimes \X MergeTimes :
      _time_to_minutes(x[2]).value - _time_to_minutes(x[1]).value >= min_overlap_minutes}}

InitMerge ==
  /\ pc = "start"
  /\ qc_output = [validated_entries |-> <<>>]
  /\ result = NotReturned
  /\ raised = "none"
  /\ intersections \in SeqUpTo(RecordPool, MaxRecords)
  /\ merged = <<>>
  /\ remerged = <<>>
  /\ steps = <<>>

\* _merge_intersections(intersections)
Merge ==
  /\ pc = "start"
  /\ merged' = _merge_intersections(intersections)
  /\ pc' = "merged"
  /\ UNCHANGED <<qc_output, result, raised, intersections, remerged, steps>>

\* _merge_intersections on the list the first call returned
Remerge ==
  /\ pc = "merged"
  /\ remerged' = _merge_intersections(merged)
  /\ pc' = "remerged"
  /\ UNCHANGED <<qc_output, result, raised, intersections, merged, steps>>

NextMerge == Merge \/ Remerge

SpecMerge == InitMerge /\ [][NextMerge]_vars

(***************************************************************************)
(* Properties of aggregate on well-formed times (Spec)                     *)
(***************************************************************************)
\* Minutes of a time string that converts.
Min(t) == _time_to_minutes(t).value

Returned == pc = "done" /\ raised = "none"

\* The flattened, converted slots of the input.
InputSlots == time_slots(all_slots(Get(qc_output, "validated_entries", <<>>)))

\* Every slot of ts carries valid HH:MM times.
ValidTimes(ts) ==
  \A k \in 1..Len(ts) : _is_valid_time(ts[k].start) /\ _is_valid_time(ts[k].end)

\* A list of windows with their times in minutes.
InMinutes(seq) ==
  [k \in 1..Len(seq) |->
     [start_min |-> Min(seq[k].start), end_min |-> Min(seq[k].end),
      participants |-> seq[k].participants]]

\* The length in minutes of the intersection of two converted slots
\* (negative or zero when they do not intersect).
OverlapStart(a, b) == IF a.start_min >= b.start_min THEN a.start_min ELSE b.start_min

OverlapEnd(a, b) == IF a.end_min <= b.end_min THEN a.end_min ELSE b.end_min

OverlapLen(a, b) == OverlapEnd(a, b) - OverlapStart(a, b)

\* A list of windows in minutes as the bag of its <<start, end, participants>>.
RECURSIVE WindowBag(_)
WindowBag(seq) ==
  IF seq = <<>> THEN EmptyBag
  ELSE SetToBag({<<Head(seq).start_min, Head(seq).end_min, Head(seq).participants>>})
       (+) WindowBag(Tail(seq))

Reverse(seq) == [k \in 1..Len(seq) |-> seq[Len(seq) + 1 - k]]

\* C1: the windows of optimal_times have start < end and are pairwise
\* separated: of two distinct windows, one ends strictly before the other
\* starts (inputs with valid HH:MM times).
C1_WindowsSeparated ==
  (Returned /\ ValidTimes(InputSlots)) =>
    \A ot \in {InMinutes(result.optimal_times)} :
       /\ \A k \in 1..Len(ot) : ot[k].start_min < ot[k].end_min
       /\ \A a, b \in 1..Len(ot) :
            a # b => \/ ot[a].end_min < ot[b].start_min
                     \/ ot[b].end_min < ot[a].start_min

\* C1's case: two windows are returned, and the sweep merged records that
\* only touch (one ends at the minute the next starts, and no other record
\* bridges that minute).
C1_Witness ==
  /\ Returned /\ ValidTimes(InputSlots)
  /\ Len(result.optimal_times) >= 2
  /\ Len(merged) < Len(intersections)
  /\ \E rs \in {InMinutes(intersections)} :
       \E a, b \in 1..Len(rs) :
          /\ rs[a].end_min = rs[b].start_min
          /\ \A c \in 1..Len(rs) :
                rs[c].end_min <= rs[a].end_min \/ rs[c].start_min >= rs[a].end_min

\* The place in the sweep's output of a returned window.
PosInMerged(w) ==
  CHOOSE k \in 1..Len(merged) : merged[k].start = w.start /\ merged[k].end = w.end

\* C5: optimal_times is in descending order of the number of participants,
\* and windows with the same number keep the order of the merge sweep
\* (ascending start).
C5_Ordering ==
  Returned =>
    LET ot == result.optimal_times
    IN /\ Len(ot) = Len(merged)
       /\ \A k \in 1..Len(ot) :
            \E m \in 1..Len(merged) : merged[m].start = ot[k].start /\ merged[m].end = ot[k].end
       /\ \A a, b \in 1..Len(ot) :
            a < b =>
              /\ Cardinality(ot[a].participants) >= Cardinality(ot[b].participants)
              /\ Cardinality(ot[a].participants) = Cardinality(ot[b].participants)
                   => /\ Min(ot[a].start) < Min(ot[b].start)
                      /\ PosInMerged(ot[a]) < PosInMerged(ot[b])

\* C5's case: three windows, the sweep produced a window of two participants
\* before one of three, and two windows tie.
C5_Witness ==
  /\ Returned
  /\ Len(merged) = 3
  /\ Cardinality(merged[1].participants) = 2
  /\ Cardinality(merged[2].participants) = 3
  /\ Cardinality(merged[3].participants) = 2
  /\ result.optimal_times[1].start = merged[2].start

\* The pairs of slots the intersection step is to pair: different owners,
\* at least 30 minutes in common.
ExpectedPairs(ts) ==
  {p \in (1..Len(ts)) \X (1..Len(ts)) :
     /\ p[1] < p[2]
     /\ ts[p[1]].user_id # ts[p[2]].user_id
     /\ OverlapLen(ts[p[1]], ts[p[2]]) >= 30}

ExpectedWindow(ts, p) ==
  <<OverlapStart(ts[p[1]], ts[p[2]]), OverlapEnd(ts[p[1]], ts[p[2]]),
    {ts[p[1]].user_id, ts[p[2]].user_id}>>

\* C8: the records of the intersection step: start < end, at least 30
\* minutes, exactly two distinct ids; one record for each pair of slots of
\* different owners that intersect for at least 30 minutes, equal to
\* [max of starts, min of ends], none for any other pair; the same windows
\* when the slots come in the reverse order.
C8_PairwiseRecords ==
  Returned =>
    \A ts \in {InputSlots} : \A rs \in {InMinutes(intersections)} :
      \A pairs \in {ExpectedPairs(ts)} : \A bag \in {WindowBag(rs)} :
        /\ \A k \in 1..Len(rs) :
             /\ rs[k].start_min < rs[k].end_min
             /\ rs[k].end_min - rs[k].start_min >= 30
             /\ intersections[k].overlap_minutes = rs[k].end_min - rs[k].start_min
             /\ Cardinality(rs[k].participants) = 2
        /\ Len(rs) = Cardinality(pairs)
        /\ \A p \in pairs :
             CopiesIn(ExpectedWindow(ts, p), bag)
               = Cardinality({q \in pairs : ExpectedWindow(ts, q) = ExpectedWindow(ts, p)})
        /\ WindowBag(InMinutes(find_intersections(Reverse(ts)))) = bag

\* C8's case: one pair of slots of different owners intersects for exactly
\* 30 minutes (the only record), another for 29, and two slots of one owner
\* overlap.
C8_Witness ==
  /\ Returned
  /\ Len(intersections) = 1
  /\ \E ts \in {InputSlots} :
       /\ \E a, b \in 1..Len(ts) :
             ts[a].user_id # ts[b].user_id /\ OverlapLen(ts[a], ts[b]) = 30
       /\ \E a, b \in 1..Len(ts) :
             ts[a].user_id # ts[b].user_id /\ OverlapLen(ts[a], ts[b]) = 29
       /\ \E a, b \in 1..Len(ts) :
             a # b /\ ts[a].user_id = ts[b].user_id /\ OverlapLen(ts[a], ts[b]) >= 30

\* The participants listed for window w who are free at minute m.
FreeAt(ts, m, w) ==
  {ts[k].user_id : k \in {j \in 1..Len(ts) :
      /\ ts[j].user_id \in w.participants
      /\ ts[j].start_min <= m
      /\ m < ts[j].end_min}}

\* C10: every minute of a returned window lies in free intervals of at
\* least two distinct participants listed for the window, and every listed
\* participant owns a free interval that overlaps the window for at least
\* 30 minutes (inputs with valid HH:MM times).
C10_WindowCovered ==
  Returned =>
    \A ts \in {InputSlots} : \A ot \in {InMinutes(result.optimal_times)} :
      ValidTimes(ts) =>
        \A k \in 1..Len(ot) :
           /\ \A m \in ot[k].start_min..(ot[k].end_min - 1) :
                 Cardinality(FreeAt(ts, m, ot[k])) >= 2
           /\ \A u \in ot[k].participants :
                 \E j \in 1..Len(ts) : ts[j].user_id = u /\ OverlapLen(ts[j], ot[k]) >= 30

\* C10's case: a window of three participants that no single pairwise record
\* spans (the sweep built it from records that touch or overlap), with a
\* minute at which not all of its participants are free.
C10_Witness ==
  /\ Returned
  /\ \E ts \in {InputSlots} : \E ot \in {InMinutes(result.optimal_times)} :
       \E rs \in {InMinutes(intersections)} :
          /\ ValidTimes(ts)
          /\ \E k \in 1..Len(ot) :
                /\ Cardinality(ot[k].participants) = 3
                /\ \A j \in 1..Len(rs) :
                      rs[j].start_min > ot[k].start_min \/ rs[j].end_min < ot[k].end_min
                /\ \E m \in ot[k].start_min..(ot[k].end_min - 1) :
                      FreeAt(ts, m, ot[k]) # ot[k].participants

(***************************************************************************)
(* Properties of the roster (SpecRoster)                                   *)
(***************************************************************************)
InputEntries == Get(qc_output, "validated_entries", <<>>)

\* C3: each optimal time lists at least 2 distinct participant ids and as
\* many participant_names as participants.
C3_NamesParallel ==
  Returned =>
    \A k \in 1..Len(result.optimal_times) :
       /\ Cardinality(result.optimal_times[k].participants) >= 2
       /\ BagCardinality(result.optimal_times[k].participant_names)
            = Cardinality(result.optimal_times[k].participants)

\* C6: confidence is the number of participants of the window over
\* participant_count to the nearest hundredth, within [0, 1];
\* participant_count is the number of distinct user_ids of the validated
\* entries; the participants of a window are on the roster.
C6_Confidence ==
  (Returned /\ Len(InputEntries) > 0) =>
    \A ids \in {{InputEntries[k].user_id : k \in 1..Len(InputEntries)}} :
      /\ result.participant_count = Cardinality(ids)
      /\ \A k \in 1..Len(result.optimal_times) :
           LET w == result.optimal_times[k]
               n == Cardinality(w.participants)
               d == result.participant_count
           IN /\ w.participants \subseteq ids
              /\ w.confidence >= 0 /\ w.confidence <= 100
              /\ 2 * (100 * n - w.confidence * d) <= d
              /\ 2 * (w.confidence * d - 100 * n) <= d

\* C6's case: a roster of three, one of them without slots, and a window of
\* the two others: confidence 0.67.
C6_Witness ==
  /\ Returned
  /\ result.participant_count = 3
  /\ \E k \in 1..Len(InputEntries) : Get(InputEntries[k], "clean_slots", <<>>) = <<>>
  /\ Len(result.optimal_times) = 1
  /\ Cardinality(result.optimal_times[1].participants) = 2
  /\ result.optimal_times[1].confidence = 67

\* C7: an empty or missing validated_entries is answered with exactly
\* optimal_times [], participant_count 0, response_rate 0.0, status
\* "active", and no stage of the pipeline runs; a non-empty roster is
\* answered with response_rate 1.0 and status "active".
C7_EmptyRoster ==
  pc = "done" =>
    IF "validated_entries" \notin DOMAIN qc_output \/ Len(InputEntries) = 0
    THEN /\ raised = "none"
         /\ result = [optimal_times |-> <<>>, participant_count |-> 0,
                      response_rate |-> 0, status |-> "active"]
         /\ steps = <<>>
         /\ intersections = <<>> /\ merged = <<>>
    ELSE raised = "none" => /\ result.response_rate = 100
                            /\ result.status = "active"
                            /\ result.participant_count > 0
                            /\ steps # <<>>

\* C7's case: the call returned on an input without "validated_entries".
C7_Witness ==
  /\ pc = "done"
  /\ "validated_entries" \notin DOMAIN qc_output
  /\ raised = "none"
  /\ result.participant_count = 0

(***************************************************************************)
(* Time strings that do not convert (SpecBadTime)                          *)
(***************************************************************************)
SlotConverts(slot) ==
  _time_to_minutes(slot.start).raised = "none" /\ _time_to_minutes(slot.end).raised = "none"

\* An entry without its slots that do not convert.
RECURSIVE ConvertingSlots(_)
ConvertingSlots(cs) ==
  IF cs = <<>> THEN <<>>
  ELSE (IF SlotConverts(Head(cs)) THEN <<Head(cs)>> ELSE <<>>) \o ConvertingSlots(Tail(cs))

WithoutBadSlots(q) ==
  [validated_entries |->
     [k \in 1..Len(q.validated_entries) |->
        [q.validated_entries[k] EXCEPT !.clean_slots = ConvertingSlots(@)]]]

\* C4: with a clean slot whose time string does not convert, aggregate still
\* returns, and its optimal_times are those of the input without that slot.
C4_BadTimeIgnored ==
  (pc = "done" /\ Len(InputEntries) > 0) =>
    /\ raised = "none"
    /\ result.optimal_times = aggregate(WithoutBadSlots(qc_output)).result.optimal_times

(***************************************************************************)
(* Properties of _merge_intersections (SpecMerge)                          *)
(***************************************************************************)
\* Records a and b of rs touch or overlap.
Linked(rs, a, b) == rs[a].start_min <= rs[b].end_min /\ rs[b].start_min <= rs[a].end_min

\* The records linked to those of S by a chain of touch-or-overlap.
RECURSIVE Chain(_, _)
Chain(rs, S) ==
  LET more == S \cup {b \in 1..Len(rs) : \E a \in S : Linked(rs, a, b)}
  IN IF more = S THEN S ELSE Chain(rs, more)

\* The window the records of chain S are to become.
ChainWindow(rs, S) ==
  <<CHOOSE x \in {rs[a].start_min : a \in S} : \A a \in S : x <= rs[a].start_min,
    CHOOSE x \in {rs[a].end_min : a \in S} : \A a \in S : x >= rs[a].end_min,
    UNION {rs[a].participants : a \in S}>>

\* C2: the records linked by a chain of touch-or-overlap are returned as
\* exactly one window: earliest start, latest end, union of the participants;
\* there are no other windows.
C2_ChainMerged ==
  pc \in {"merged", "remerged"} =>
    \A rs \in {InMinutes(intersections)} : \A bag \in {WindowBag(InMinutes(merged))} :
      \A chains \in {{Chain(rs, {a}) : a \in 1..Len(rs)}} :
        /\ Len(merged) = Cardinality(chains)
        /\ \A S \in chains : CopiesIn(ChainWindow(rs, S), bag) = 1

\* C2's case: A/B 09:00-10:00, A/C 09:30-10:30, B/C 09:45-11:00 (no record
\* names all three) came back as the single window 09:00-11:00 of A, B, C.
C2_Witness ==
  /\ pc = "merged"
  /\ \E order \in {<<1, 2, 3>>, <<3, 1, 2>>, <<2, 3, 1>>} :
       LET ex == << Record(T(0,9,0,0), T(1,0,0,0)), Record(T(0,9,3,0), T(1,0,3,0)),
                    Record(T(0,9,4,5), T(1,1,0,0)) >>
       IN intersections = [k \in 1..3 |-> ex[order[k]]]
  /\ Len(merged) = 1
  /\ merged[1].start = T(0,9,0,0)
  /\ merged[1].end = T(1,1,0,0)
  /\ merged[1].participants = {"U1", "U2", "U3"}

\* C9: _merge_intersections on its own output returns the same intervals,
\* each with the same start, end and participants.
C9_MergeIdempotent ==
  pc = "remerged" =>
    /\ Len(remerged) = Len(merged)
    /\ {<<remerged[k].start, remerged[k].end, remerged[k].participants>> : k \in 1..Len(remerged)}
         = {<<merged[k].start, merged[k].end, merged[k].participants>> : k \in 1..Len(merged)}

\* C9's case: the first call merged three records into two windows, and the
\* second call ran on those two.
C9_Witness ==
  /\ pc = "remerged"
  /\ Len(intersections) = 3
  /\ Len(merged) = 2
  /\ Len(remerged) = 2
====
